---- MODULE Spec2Model ----
(***************************************************************************)
(* Model of the signaling server in src/index.js: the two registry maps    *)
(* (rooms, userVideoStates), the socket.io sockets with the listeners each *)
(* one has registered, and the socket.io adapter rooms used for delivery.  *)
(* One action per inbound event; an action is the whole run of all the     *)
(* listeners the socket has for that event.                                *)
(***************************************************************************)
EXTENDS Bags, FiniteSets, Integers, Sequences, TLC

\* Socket ids.  socket.io puts every socket in an adapter room named by its id.
ConnIds == {"s1", "s2", "s3"}

\* Room ids a client may send.  They are caller-supplied strings, so the set
\* holds an ordinary id, an id equal to a socket id, a name that a plain
\* object inherits from Object.prototype, and the empty string.
RoomIds == {"r1", "s1", "constructor", ""}

\* The room ids the clients of one run send: the ordinary id and one other, or
\* the empty string alone.
Universes == {{"r1", "s1"}, {"r1", "constructor"}, {""}}

\* Property names that `rooms = {}` (line 20) and `userVideoStates = {}`
\* (line 24) inherit: rooms[k] is a truthy non-array value for them although
\* rooms.hasOwnProperty(k) is false.
Inherited == {"constructor"}

\* Opaque payloads (sdp, candidate, midi data) and video flags.
Payloads == {"p"}
Flags == BOOLEAN

\* At most this many join-room closures on the open sockets together.
MaxJoins == 3

VARIABLES
  rooms,            \* line 20: roomId -> sequence of socket ids
  userVideoStates,  \* line 24: roomId -> (socket id -> flag)
  sockets,          \* socket id -> "new" | "open" | "closed"
  adapter,          \* socket id -> set of adapter rooms the socket is in
  joined,           \* socket id -> roomIds of its join-room closures (lines 81-155)
  crashed,          \* an uncaught TypeError has ended the process
  roomIds,          \* the room ids the clients of this run send
  lastEvent,        \* the inbound event handled by the last step
  outbox            \* bag of the messages delivered by the last step

vars == <<rooms, userVideoStates, sockets, adapter, joined, crashed, roomIds,
          lastEvent, outbox>>

-----------------------------------------------------------------------------
(* JavaScript object and array helpers *)

HasOwn(obj, k) == k \in DOMAIN obj

\* Truthiness of rooms[k]: an own array (even empty) is truthy, an inherited
\* value is truthy, a missing property is undefined.
Truthy(obj, k) == HasOwn(obj, k) \/ k \in Inherited

Put(obj, k, v) == [x \in DOMAIN obj \cup {k} |-> IF x = k THEN v ELSE obj[x]]

DeleteKeeps(obj, k) == obj

Delete(obj, k) == [x \in DOMAIN obj \ {k} |-> obj[x]]

IncludesNever(arr, id) == FALSE

Includes(arr, id) == \E i \in 1..Len(arr) : arr[i] = id

WithoutNone(arr, id) == arr

Without(arr, id) == SelectSeq(arr, LAMBDA x : x # id)

Range(arr) == {arr[i] : i \in 1..Len(arr)}

-----------------------------------------------------------------------------
(* Messages and delivery *)

Msg(to, ev, from, roomId, flag, list, map, data) ==
  [to |-> to, ev |-> ev, from |-> from, roomId |-> roomId, flag |-> flag,
   list |-> list, map |-> map, data |-> data]

\* An inbound event; for 'disconnect', was is the set of rooms that listed the
\* socket when the event arrived.
Event(ev, id, roomId, target, flag, data, was) ==
  [ev |-> ev, id |-> id, roomId |-> roomId, target |-> target, flag |-> flag,
   data |-> data, was |-> was]

\* socket.emit(...): to the socket itself.
Emit(s, m) == SetToBag({[m EXCEPT !.to = s]})

SocketToAll(adp, s, room, m) ==
  SetToBag({[m EXCEPT !.to = t] : t \in {t \in ConnIds : room \in adp[t]}})

\* socket.to(room).emit(...): every socket in the adapter room but the sender.
SocketTo(adp, s, room, m) ==
  SetToBag({[m EXCEPT !.to = t] : t \in {t \in ConnIds \ {s} : room \in adp[t]}})

\* io.to(room).emit(...): every socket in the adapter room.
IoTo(adp, room, m) ==
  SetToBag({[m EXCEPT !.to = t] : t \in {t \in ConnIds : room \in adp[t]}})

\* The number of join-room closures on all sockets.
Closures == Len(joined["s1"]) + Len(joined["s2"]) + Len(joined["s3"])

\* The same bag n times over.
RECURSIVE Times(_, _)
Times(n, bag) == IF n = 0 THEN EmptyBag ELSE bag (+) Times(n - 1, bag)

Idle == ~crashed

Open(s) == Idle /\ sockets[s] = "open"

-----------------------------------------------------------------------------
Init ==
  /\ rooms = << >>
  /\ userVideoStates = << >>
  /\ sockets = [s \in ConnIds |-> "new"]
  /\ adapter = [s \in ConnIds |-> {}]
  /\ joined = [s \in ConnIds |-> << >>]
  /\ crashed = FALSE
  /\ roomIds \in Universes
  /\ lastEvent = Event("start", "", "", "", FALSE, "", {})
  /\ outbox = EmptyBag

\* io.on('connection') (line 26): the socket is open and in its own room.
Connect(s) ==
  /\ Idle
  /\ sockets[s] = "new"
  /\ sockets' = [sockets EXCEPT ![s] = "open"]
  /\ adapter' = [adapter EXCEPT ![s] = {s}]
  /\ lastEvent' = Event("connection", s, "", "", FALSE, "", {})
  /\ outbox' = EmptyBag
  /\ UNCHANGED <<rooms, userVideoStates, joined, crashed, roomIds>>

\* The reply of the 'check-room' listener (lines 31-32).
RoomExists(s, roomId) ==
  Emit(s, Msg(s, "room-exists", "", "", HasOwn(rooms, roomId), << >>, {}, ""))

\* 'check-room' (lines 30-33)
CheckRoom(s, roomId) ==
  /\ Open(s)
  /\ lastEvent' = Event("check-room", s, roomId, "", FALSE, "", {})
  /\ outbox' = RoomExists(s, roomId)
  /\ UNCHANGED <<rooms, userVideoStates, sockets, adapter, joined, crashed, roomIds>>

\* socket.emit('room-created', { roomId }) (line 46)
RoomCreated(s, roomId) ==
  Emit(s, Msg(s, "room-created", "", roomId, FALSE, << >>, {}, ""))

CreateRoomOverwrites(s, roomId) ==
  /\ Open(s)
  /\ rooms' = Put(rooms, roomId, << >>)
  /\ userVideoStates' = Put(userVideoStates, roomId, << >>)
  /\ lastEvent' = Event("create-room", s, roomId, "", FALSE, "", {})
  /\ outbox' = RoomCreated(s, roomId)
  /\ UNCHANGED <<sockets, adapter, joined, crashed, roomIds>>

CreateRoomNoVideoMap(s, roomId) ==
  /\ Open(s)
  /\ rooms' = IF HasOwn(rooms, roomId) THEN rooms ELSE Put(rooms, roomId, << >>)
  /\ lastEvent' = Event("create-room", s, roomId, "", FALSE, "", {})
  /\ outbox' = RoomCreated(s, roomId)
  /\ UNCHANGED <<userVideoStates, sockets, adapter, joined, crashed, roomIds>>

\* 'create-room' (lines 36-47)
CreateRoom(s, roomId) ==
  /\ Open(s)
  /\ IF HasOwn(rooms, roomId)
       THEN UNCHANGED <<rooms, userVideoStates>>
       ELSE /\ rooms' = Put(rooms, roomId, << >>)
            /\ userVideoStates' = Put(userVideoStates, roomId, << >>)
  /\ lastEvent' = Event("create-room", s, roomId, "", FALSE, "", {})
  /\ outbox' = RoomCreated(s, roomId)
  /\ UNCHANGED <<sockets, adapter, joined, crashed, roomIds>>

VideoSnapshotDefault(uvs, roomId, otherUsers) ==
  {<<u, TRUE>> : u \in Range(otherUsers)}

\* The snapshot of lines 72-75: the flags of the other users, as pairs; a user
\* with no entry maps to undefined, which the JSON encoding leaves out.
VideoSnapshot(uvs, roomId, otherUsers) ==
  {<<u, uvs[roomId][u]>> : u \in {u \in Range(otherUsers) : u \in DOMAIN uvs[roomId]}}

\* socket.emit('room-not-found') (line 53)
RoomNotFound(s) == Emit(s, Msg(s, "room-not-found", "", "", FALSE, << >>, {}, ""))

\* The 'join-room' listener (lines 50-156) run by socket s: the registry,
\* adapter and listener lists it leaves, and the messages it sends.
JoinListener(s, roomId) ==
  LET st == [rooms |-> rooms, uvs |-> userVideoStates, adapter |-> adapter,
             joined |-> joined, out |-> EmptyBag, crashed |-> FALSE]
  IN IF ~Truthy(rooms, roomId)
       THEN \* lines 51-55
            [st EXCEPT !.out = RoomNotFound(s)]
     ELSE IF ~HasOwn(rooms, roomId)
       THEN \* line 58: the inherited value has no includes(): TypeError
            [st EXCEPT !.crashed = TRUE]
     ELSE IF ~Includes(rooms[roomId], s) /\ ~Truthy(userVideoStates, roomId)
       THEN \* line 61 after line 59: userVideoStates[roomId] is undefined: TypeError
            [st EXCEPT !.rooms = Put(rooms, roomId, Append(rooms[roomId], s)),
                       !.crashed = TRUE]
     ELSE LET fresh == ~Includes(rooms[roomId], s)
              rooms1 == IF fresh THEN Put(rooms, roomId, Append(rooms[roomId], s))
                                 ELSE rooms
              uvs1 == IF fresh /\ HasOwn(userVideoStates, roomId)
                        THEN Put(userVideoStates, roomId,
                                 Put(userVideoStates[roomId], s, TRUE))
                        ELSE userVideoStates
              adp1 == [adapter EXCEPT ![s] = @ \cup {roomId}]
              otherUsers == Without(rooms1[roomId], s)
              allUsers == Emit(s, Msg(s, "all-users", "", "", FALSE, otherUsers, {}, ""))
          IN IF Len(otherUsers) > 0 /\ ~Truthy(uvs1, roomId)
               THEN \* line 74: userVideoStates[roomId] is undefined: TypeError
                    [st EXCEPT !.rooms = rooms1, !.uvs = uvs1, !.adapter = adp1,
                               !.out = allUsers, !.crashed = TRUE]
               ELSE [st EXCEPT
                       !.rooms = rooms1, !.uvs = uvs1, !.adapter = adp1,
                       !.joined = [joined EXCEPT ![s] = Append(@, roomId)],
                       !.out = allUsers
                         (+) Emit(s, Msg(s, "initial-video-states", "", "", FALSE, << >>,
                                  IF HasOwn(uvs1, roomId)
                                    THEN VideoSnapshot(uvs1, roomId, otherUsers)
                                    ELSE {}, ""))
                         (+) SocketTo(adp1, s, roomId,
                                      Msg(s, "user-joined", s, "", FALSE, << >>, {}, ""))]

\* 'join-room' (lines 50-156)
JoinRoom(s, roomId) ==
  /\ Open(s)
  /\ Closures < MaxJoins
  /\ \E st \in {JoinListener(s, roomId)} :
       /\ lastEvent' = Event("join-room", s, roomId, "", FALSE, "", {})
       /\ rooms' = st.rooms
       /\ userVideoStates' = st.uvs
       /\ adapter' = st.adapter
       /\ joined' = st.joined
       /\ outbox' = st.out
       /\ crashed' = st.crashed
  /\ UNCHANGED <<sockets, roomIds>>

-----------------------------------------------------------------------------
(* Listeners registered inside 'join-room': one set per successful join *)

\* io.to(payload.target).emit(ev, {..., caller: socket.id}) once per closure
\* (lines 82-106).
Forward(s, ev, target, data) ==
  Times(Len(joined[s]),
        IoTo(adapter, target, Msg(s, ev, s, "", FALSE, << >>, {}, data)))

\* 'offer' (lines 82-88)
Offer(s, target, data) ==
  /\ Open(s)
  /\ lastEvent' = Event("offer", s, "", target, FALSE, data, {})
  /\ outbox' = Forward(s, "offer", target, data)
  /\ UNCHANGED <<rooms, userVideoStates, sockets, adapter, joined, crashed, roomIds>>

\* 'answer' (lines 91-97)
Answer(s, target, data) ==
  /\ Open(s)
  /\ lastEvent' = Event("answer", s, "", target, FALSE, data, {})
  /\ outbox' = Forward(s, "answer", target, data)
  /\ UNCHANGED <<rooms, userVideoStates, sockets, adapter, joined, crashed, roomIds>>

\* 'ice-candidate' (lines 100-106)
IceCandidate(s, target, data) ==
  /\ Open(s)
  /\ lastEvent' = Event("ice-candidate", s, "", target, FALSE, data, {})
  /\ outbox' = Forward(s, "ice-candidate", target, data)
  /\ UNCHANGED <<rooms, userVideoStates, sockets, adapter, joined, crashed, roomIds>>

\* One 'videoStateChange' listener, closed over roomId (lines 109-120), run on
\* the registry st = [rooms, uvs, out, crashed].
VideoListener(st, s, roomId, videoEnabled) ==
  IF st.crashed THEN st
  ELSE IF HasOwn(st.uvs, roomId)
    THEN [st EXCEPT
            !.uvs = Put(st.uvs, roomId, Put(st.uvs[roomId], s, videoEnabled)),
            !.out = @ (+) SocketTo(adapter, s, roomId,
                            Msg(s, "remoteVideoStateChange", s, "", videoEnabled,
                                << >>, {}, ""))]
  ELSE IF roomId \in Inherited
    THEN \* line 113 writes a property of the inherited value: no registry change
         [st EXCEPT
            !.out = @ (+) SocketTo(adapter, s, roomId,
                            Msg(s, "remoteVideoStateChange", s, "", videoEnabled,
                                << >>, {}, ""))]
  ELSE \* line 113: userVideoStates[roomId] is undefined: TypeError
       [st EXCEPT !.crashed = TRUE]

RECURSIVE VideoListeners(_, _, _, _)
VideoListeners(st, s, closures, videoEnabled) ==
  IF closures = << >> THEN st
  ELSE VideoListeners(VideoListener(st, s, Head(closures), videoEnabled),
                      s, Tail(closures), videoEnabled)

\* 'videoStateChange' (lines 109-120), all listeners of the socket in order
VideoStateChange(s, videoEnabled) ==
  /\ Open(s)
  /\ \E st \in {VideoListeners([rooms |-> rooms, uvs |-> userVideoStates,
                                 out |-> EmptyBag, crashed |-> FALSE],
                                s, joined[s], videoEnabled)} :
       /\ lastEvent' = Event("videoStateChange", s, "", "", videoEnabled, "", {})
       /\ userVideoStates' = st.uvs
       /\ outbox' = st.out
       /\ crashed' = st.crashed
  /\ UNCHANGED <<rooms, sockets, adapter, joined, roomIds>>

\* 'midi-message' (lines 123-135), once per closure
MidiMessage(s, roomId, data) ==
  /\ Open(s)
  /\ lastEvent' = Event("midi-message", s, roomId, "", FALSE, data, {})
  /\ outbox' = Times(Len(joined[s]),
                     SocketTo(adapter, s, roomId,
                              Msg(s, "remote-midi-message", s, "", FALSE, << >>, {}, data)))
  /\ UNCHANGED <<rooms, userVideoStates, sockets, adapter, joined, crashed, roomIds>>

-----------------------------------------------------------------------------
(* Disconnect *)

UserDisconnected(s) == Msg(s, "user-disconnected", s, "", FALSE, << >>, {}, "")

DeleteFlagSkipped(uvs, roomId, id) == uvs

\* delete userVideoStates[roomId][id]: only an own entry is part of the registry.
DeleteFlag(uvs, roomId, id) ==
  IF HasOwn(uvs, roomId) THEN Put(uvs, roomId, Delete(uvs[roomId], id)) ELSE uvs

\* The body of the forEach of the general listener for one key (lines 163-178),
\* on the registry st = [rooms, uvs, out, crashed]; adp is the adapter after the
\* socket has left all its rooms.
GeneralRoom(st, s, roomId, adp) ==
  IF ~Includes(st.rooms[roomId], s) THEN st
  ELSE LET members == Without(st.rooms[roomId], s)
           uvs1 == IF Truthy(st.uvs, roomId) THEN DeleteFlag(st.uvs, roomId, s)
                                             ELSE st.uvs
           out1 == st.out (+) SocketTo(adp, s, roomId, UserDisconnected(s))
       IN IF Len(members) = 0
            THEN [st EXCEPT !.rooms = Delete(st.rooms, roomId),
                            !.uvs = Delete(uvs1, roomId), !.out = out1]
            ELSE [st EXCEPT !.rooms = Put(st.rooms, roomId, members),
                            !.uvs = uvs1, !.out = out1]

\* Object.keys(rooms).forEach(...) (line 162): the keys are the snapshot taken
\* before the loop; the iterations touch disjoint keys.
RECURSIVE GeneralListener(_, _, _, _)
GeneralListener(st, s, keys, adp) ==
  IF keys = {} THEN st
  ELSE LET roomId == CHOOSE k \in keys : TRUE
       IN GeneralListener(GeneralRoom(st, s, roomId, adp), s, keys \ {roomId}, adp)

\* One room-scoped 'disconnect' listener, closed over roomId (lines 138-155).
RoomListener(st, s, roomId, adp) ==
  IF st.crashed \/ ~Truthy(st.rooms, roomId) THEN st
  ELSE IF ~HasOwn(st.rooms, roomId)
    THEN \* line 141: the inherited value has no filter(): TypeError
         [st EXCEPT !.crashed = TRUE]
  ELSE LET members == Without(st.rooms[roomId], s)
           rooms1 == Put(st.rooms, roomId, members)
       IN IF ~Truthy(st.uvs, roomId)
            THEN \* line 143: userVideoStates[roomId] is undefined: TypeError
                 [st EXCEPT !.rooms = rooms1, !.crashed = TRUE]
            ELSE LET uvs1 == DeleteFlag(st.uvs, roomId, s)
                     out1 == st.out (+) SocketTo(adp, s, roomId, UserDisconnected(s))
                 IN IF Len(members) = 0
                      THEN [st EXCEPT !.rooms = Delete(rooms1, roomId),
                                      !.uvs = Delete(uvs1, roomId), !.out = out1]
                      ELSE [st EXCEPT !.rooms = rooms1, !.uvs = uvs1, !.out = out1]

RECURSIVE RoomListeners(_, _, _, _)
RoomListeners(st, s, closures, adp) ==
  IF closures = << >> THEN st
  ELSE RoomListeners(RoomListener(st, s, Head(closures), adp), s, Tail(closures), adp)

\* The registry after the 'disconnect' listeners of socket s have run in the
\* order they were registered: the general one (line 159, registered on
\* connection) and then one room-scoped listener per join.
DisconnectListeners(s, adp) ==
  RoomListeners(
    GeneralListener([rooms |-> rooms, uvs |-> userVideoStates,
                     out |-> EmptyBag, crashed |-> FALSE],
                    s, DOMAIN rooms, adp),
    s, joined[s], adp)

\* The transport closes socket s: it leaves every adapter room, then
\* 'disconnect' is emitted on it.  The closed socket and its listeners are
\* dropped.
Disconnect(s) ==
  /\ Open(s)
  /\ \E adp \in {[adapter EXCEPT ![s] = {}]} :
       \E st \in {DisconnectListeners(s, adp)} :
         /\ lastEvent' = Event("disconnect", s, "", "", FALSE, "",
                              {r \in DOMAIN rooms : Includes(rooms[r], s)})
         /\ sockets' = [sockets EXCEPT ![s] = "closed"]
         /\ adapter' = adp
         /\ joined' = [joined EXCEPT ![s] = << >>]
         /\ rooms' = st.rooms
         /\ userVideoStates' = st.uvs
         /\ outbox' = st.out
         /\ crashed' = st.crashed
  /\ UNCHANGED roomIds

-----------------------------------------------------------------------------------------------------------------------------------------------------
(* Specifications.  Membership is the events that change the room lists,   *)
(* the adapter rooms and the registered listeners.  videoStateChange writes  *)
(* only the flags; the listeners for check-room, offer, answer,              *)
(* ice-candidate and midi-message write nothing, and the last four read only *)
(* the adapter rooms and the listener lists.  Each specification runs        *)
(* Membership together with the events its claims are about.                 *)

Membership ==
  \/ \E s \in ConnIds : Connect(s)
  \/ \E s \in ConnIds, roomId \in roomIds : CreateRoom(s, roomId)
  \/ \E s \in ConnIds, roomId \in roomIds : JoinRoom(s, roomId)
  \/ \E s \in ConnIds : Disconnect(s)

Next ==
  \/ Membership
  \/ \E s \in ConnIds, videoEnabled \in Flags : VideoStateChange(s, videoEnabled)

Spec == Init /\ [][Next]_vars

CheckNext ==
  \/ Membership
  \/ \E s \in ConnIds, roomId \in roomIds : CheckRoom(s, roomId)

CheckSpec == Init /\ [][CheckNext]_vars

SignalNext ==
  \/ Membership
  \/ \E s \in ConnIds, target \in ConnIds, data \in Payloads : Offer(s, target, data)
  \/ \E s \in ConnIds, target \in ConnIds, data \in Payloads : Answer(s, target, data)
  \/ \E s \in ConnIds, target \in ConnIds, data \in Payloads : IceCandidate(s, target, data)

SignalSpec == Init /\ [][SignalNext]_vars

MidiNext ==
  \/ Membership
  \/ \E s \in ConnIds, roomId \in roomIds, data \in Payloads : MidiMessage(s, roomId, data)

MidiSpec == Init /\ [][MidiNext]_vars

\* Every event whose listeners send with socket.to(...): join-room and
\* disconnect, videoStateChange and midi-message.
BroadcastNext ==
  \/ Next
  \/ \E s \in ConnIds, roomId \in roomIds, data \in Payloads : MidiMessage(s, roomId, data)

BroadcastSpec == Init /\ [][BroadcastNext]_vars
-----------------------------------------------------------------------------
(* Properties *)

\* The members a room lists; none when the room is not in the registry.
Members(r) == IF HasOwn(rooms, r) THEN Range(rooms[r]) ELSE {}

\* The number of copies of message m that socket t received in the last step.
Received(t, m) == CopiesIn([m EXCEPT !.to = t], outbox)

\* C1: when a member of room R disconnects, every remaining member of R
\* receives user-disconnected(id) exactly once, although both the general and
\* the room-scoped disconnect listeners run.
C1_DisconnectedOnce ==
  [][lastEvent'.ev = "disconnect" =>
       \A r \in DOMAIN rooms :
         Includes(rooms[r], lastEvent'.id) =>
           \A t \in Range(rooms[r]) \ {lastEvent'.id} :
             CopiesIn([UserDisconnected(lastEvent'.id) EXCEPT !.to = t], outbox') = 1]_vars

\* C2: in every reachable state each connection id is in the member list of
\* at most one room.
C2_AtMostOneRoom ==
  \A c \in ConnIds : Cardinality({r \in DOMAIN rooms : Includes(rooms[r], c)}) <= 1

\* C3 as stated: in every reachable state a room is in the registry if and
\* only if it has at least one member.
C3_PresentIffMembers ==
  \A r \in RoomIds : HasOwn(rooms, r) <=> Members(r) # {}

\* C3 as amended: a room with members is in the registry, and a room in the
\* registry with no members is one that create-room has inserted and that has
\* had no member since: no step empties a room and leaves it in the registry.
C3_EmptyOnlyAsCreated ==
  [][\A r \in DOMAIN rooms' :
       Len(rooms'[r]) = 0 =>
         \/ HasOwn(rooms, r) /\ Len(rooms[r]) = 0
         \/ ~HasOwn(rooms, r) /\ lastEvent'.ev = "create-room" /\ lastEvent'.roomId = r]_vars

\* A disconnect has removed the last member of a room, and the room with it.
C3_Witness ==
  /\ lastEvent.ev = "disconnect"
  /\ ~crashed
  /\ \E r \in lastEvent.was : ~HasOwn(rooms, r)

\* C4: in every reachable state, for every room, the ids that have a
\* video-state entry in the room are members of the room.
C4_VideoKeysAreMembers ==
  \A r \in DOMAIN userVideoStates :
    /\ HasOwn(rooms, r)
    /\ DOMAIN userVideoStates[r] \subseteq Range(rooms[r])

\* A member that had changed its flag has disconnected from a room that still
\* has members, a flag set to false among them.
C4_Witness ==
  /\ lastEvent.ev = "disconnect"
  /\ \E r \in lastEvent.was :
       /\ HasOwn(rooms, r)
       /\ lastEvent.id \notin DOMAIN userVideoStates[r]
       /\ \E u \in Range(rooms[r]) : userVideoStates[r][u] = FALSE

\* The open sockets that have joined room r.
JoinedOpen(r) == {s \in ConnIds : sockets[s] = "open" /\ Includes(joined[s], r)}

\* C5: the members of a room are exactly the distinct sessions that have
\* joined it and have not disconnected, each listed once, so the member count
\* is distinct joins minus leaves.
C5_MembersAreJoinedMinusLeft ==
  \A r \in RoomIds :
    /\ Members(r) = JoinedOpen(r)
    /\ HasOwn(rooms, r) => Len(rooms[r]) = Cardinality(JoinedOpen(r))

\* One of three members of a room has disconnected; a socket among the other
\* two had joined the room twice.
C5_Witness ==
  /\ lastEvent.ev = "disconnect"
  /\ \E r \in lastEvent.was : HasOwn(rooms, r) /\ Len(rooms[r]) = 1
  /\ \E s \in ConnIds : sockets[s] = "open" /\ Len(joined[s]) = 2
                        /\ joined[s][1] = joined[s][2]

\* C6: when the last member of a room disconnects, the room and its
\* video-state map are gone by the end of the disconnect handling, so that a
\* subsequent check-room replies exists = false and a subsequent join-room
\* replies room-not-found; when another member disconnects, the room stays
\* with the remaining members.
C6_LastMemberRemovesRoom ==
  [][lastEvent'.ev = "disconnect" =>
       \A r \in DOMAIN rooms :
         Includes(rooms[r], lastEvent'.id) =>
           IF Len(Without(rooms[r], lastEvent'.id)) = 0
             THEN /\ ~HasOwn(rooms', r)
                  /\ ~HasOwn(userVideoStates', r)
                  /\ ~crashed'
                  /\ \A t \in ConnIds :
                       /\ (RoomExists(t, r) =
                             Emit(t, Msg(t, "room-exists", "", "", FALSE, << >>, {}, "")))'
                       /\ (JoinListener(t, r).out = RoomNotFound(t))'
                       /\ (~JoinListener(t, r).crashed)'
             ELSE /\ HasOwn(rooms', r)
                  /\ rooms'[r] = Without(rooms[r], lastEvent'.id)]_vars

\* C7: a join-room for a room id that is not in the registry replies
\* room-not-found to the sender only and changes nothing: no room, member,
\* video entry, adapter subscription or registered listener is added and
\* nothing is broadcast.
C7_JoinAbsentRoom ==
  [][(lastEvent'.ev = "join-room" /\ ~HasOwn(rooms, lastEvent'.roomId)) =>
       /\ outbox' = RoomNotFound(lastEvent'.id)
       /\ ~crashed'
       /\ UNCHANGED <<rooms, userVideoStates, adapter, joined>>]_vars

\* C8: an offer with target X, X a connected socket, is delivered to
\* connection X only, carrying caller = the sender's id.
C8_OfferToTargetOnly ==
  (lastEvent.ev = "offer" /\ sockets[lastEvent.target] = "open") =>
    \A m \in BagToSet(outbox) :
      m.to = lastEvent.target /\ m.ev = "offer" /\ m.from = lastEvent.id

C11_RejoinNoDuplicate ==
  [][/\ \A r \in DOMAIN rooms' :
          \A i, j \in 1..Len(rooms'[r]) : rooms'[r][i] = rooms'[r][j] => i = j
     /\ (/\ lastEvent'.ev = "join-room"
         /\ HasOwn(rooms, lastEvent'.roomId)
         /\ lastEvent'.id \in Range(rooms[lastEvent'.roomId])) =>
          LET J == lastEvent'.id
              R == lastEvent'.roomId
              others == Without(rooms[R], J)
          IN /\ rooms' = rooms
             /\ userVideoStates' = userVideoStates
             /\ CopiesIn(Msg(J, "all-users", "", "", FALSE, others, {}, ""), outbox') = 1
             /\ CopiesIn(Msg(J, "initial-video-states", "", "", FALSE, << >>,
                             {<<u, userVideoStates[R][u]>> : u \in Range(others)}, ""),
                         outbox') = 1]_vars

\* A member of a room of two that had set its flag to false has joined the
\* room again.
C11_Witness ==
  /\ lastEvent.ev = "join-room"
  /\ \E r \in DOMAIN rooms :
       /\ lastEvent.roomId = r
       /\ Len(rooms[r]) = 2
       /\ Len(joined[lastEvent.id]) = 2
       /\ joined[lastEvent.id][1] = r /\ joined[lastEvent.id][2] = r
       /\ userVideoStates[r][lastEvent.id] = FALSE

\* C12: a create-room with the empty string as room id is rejected: it adds no
\* room keyed by the empty string to the registry, changes nothing in it, and
\* sends the sender no room-created for it.
C12_EmptyRoomIdRejected ==
  [][(lastEvent'.ev = "create-room" /\ lastEvent'.roomId = "") =>
       /\ ~HasOwn(rooms', "")
       /\ ~HasOwn(userVideoStates', "")
       /\ UNCHANGED <<rooms, userVideoStates>>
       /\ \A m \in BagToSet(outbox') : m.ev # "room-created"]_vars

\* C13: a midi-message{roomId, ...} sent by any connected socket, whether or
\* not it has joined a room, is delivered as remote-midi-message with userId =
\* the sender, once to every current member of roomId other than the sender and
\* to no one else, and changes nothing in the registry.
C13_MidiToOtherMembers ==
  [][lastEvent'.ev = "midi-message" =>
       LET s == lastEvent'.id
           m == Msg(s, "remote-midi-message", s, "", FALSE, << >>, {}, lastEvent'.data)
       IN /\ \A t \in ConnIds :
               CopiesIn([m EXCEPT !.to = t], outbox') =
                 IF t \in Members(lastEvent'.roomId) \ {s} THEN 1 ELSE 0
          /\ \A x \in BagToSet(outbox') : [x EXCEPT !.to = s] = [m EXCEPT !.to = s]
          /\ UNCHANGED <<rooms, userVideoStates>>]_vars

\* C14: a videoStateChange(enabled) from a member of room R overwrites the
\* member's flag in R and is delivered as remoteVideoStateChange with userId =
\* the sender to every other member of R and to no member of any other room; a
\* socket that joins R next is sent the member mapped to enabled in its
\* initial-video-states.  From a socket that is in no room it changes nothing
\* in the registry and is delivered to nobody.
C14_VideoStateChange ==
  [][\A s \in ConnIds, enabled \in Flags :
       (lastEvent'.ev = "videoStateChange" /\ lastEvent'.id = s
                                           /\ lastEvent'.flag = enabled) =>
         LET m == Msg(s, "remoteVideoStateChange", s, "", enabled, << >>, {}, "")
             got == {t \in ConnIds : CopiesIn([m EXCEPT !.to = t], outbox') > 0}
         IN /\ ~crashed'
            /\ rooms' = rooms
            /\ \A x \in BagToSet(outbox') : [x EXCEPT !.to = s] = [m EXCEPT !.to = s]
            /\ IF \A r \in DOMAIN rooms : ~Includes(rooms[r], s)
                 THEN userVideoStates' = userVideoStates /\ outbox' = EmptyBag
                 ELSE \A R \in {r \in DOMAIN rooms : Includes(rooms[r], s)} :
                        /\ userVideoStates'[R][s] = enabled
                        /\ Members(R) \ {s} \subseteq got
                        /\ \A t \in got \ Members(R) :
                             \A r \in DOMAIN rooms : t \notin Members(r)
                        /\ \A j \in ConnIds \ {s} :
                             (\E x \in BagToSet(JoinListener(j, R).out) :
                                /\ x.ev = "initial-video-states"
                                /\ <<s, enabled>> \in x.map)']_vars

\* The events that socket.to(...) sends (lines 79, 116, 129, 145, 170).
Broadcasts ==
  {"user-joined", "remoteVideoStateChange", "remote-midi-message", "user-disconnected"}

\* C15: no broadcast is delivered to the socket that caused it: user-joined,
\* remoteVideoStateChange, remote-midi-message and user-disconnected are never
\* received by the socket they name as their origin, which is the socket whose
\* event was handled.
C15_BroadcastExcludesSender ==
  \A m \in BagToSet(outbox) :
    m.ev \in Broadcasts => m.from = lastEvent.id /\ m.to # lastEvent.id

\* A member of a room with another member has sent a midi-message to the room,
\* and the other member has received it.
C15_Witness ==
  /\ lastEvent.ev = "midi-message"
  /\ lastEvent.id \in Members(lastEvent.roomId)
  /\ \E m \in BagToSet(outbox) :
       m.ev = "remote-midi-message" /\ m.to \in Members(lastEvent.roomId)

\* The sockets in adapter room r: the transport-level subscribers of r.
Subscribers(r) == {s \in ConnIds : r \in adapter[s]}

\* C16: in every reachable state, for every room id in the registry, the
\* sockets subscribed to the room id in the adapter are exactly the members the
\* registry lists for the room.
C16_SubscribersAreMembers ==
  \A r \in DOMAIN rooms : Subscribers(r) = Members(r)

\* C17: every offer, answer and ice-candidate a connected socket sends is
\* forwarded to its (connected) target exactly once, however many join-room
\* requests the sender has made before: none, one, or several.
C17_ForwardedOnce ==
  (/\ lastEvent.ev \in {"offer", "answer", "ice-candidate"}
   /\ sockets[lastEvent.target] = "open") =>
    CopiesIn(Msg(lastEvent.target, lastEvent.ev, lastEvent.id, "", FALSE, << >>, {},
                 lastEvent.data), outbox) = 1

\* C18: on every successful join-room of room R by socket J, the sockets that
\* receive user-joined(J) are exactly the ids listed in the all-users reply
\* sent to J in the same step.
C18_AnnouncedBothSides ==
  lastEvent.ev = "join-room" =>
    \A m \in BagToSet(outbox) :
      m.ev = "all-users" =>
        {x.to : x \in {x \in BagToSet(outbox) : x.ev = "user-joined"}} = Range(m.list)

\* The first half of C19: every open socket that has joined room r finds r in
\* the registry with its video-state map, and itself among the members of r.
JoinedRoomsPresent ==
  \A s \in ConnIds : \A i \in 1..Len(joined[s]) :
    sockets[s] = "open" =>
      /\ HasOwn(rooms, joined[s][i])
      /\ HasOwn(userVideoStates, joined[s][i])
      /\ Includes(rooms[joined[s][i]], s)

\* C19: while a socket that has joined room R stays connected, R is in the
\* registry with its video-state map and the socket is a member of R, whatever
\* the other sockets create, join or leave; hence no videoStateChange listener
\* and no room-scoped disconnect listener of the socket runs on a room that is
\* missing from the registry maps, which would end in a TypeError.
C19_JoinedRoomStays ==
  [][/\ JoinedRoomsPresent'
     /\ lastEvent'.ev \in {"videoStateChange", "disconnect"} => ~crashed']_vars

\* C20: in every reachable state the two registry maps have the same keys: a
\* room id is a key of rooms if and only if it is a key of userVideoStates.
C20_SameKeys ==
  DOMAIN rooms = DOMAIN userVideoStates

\* The disconnect of the last member of a room has deleted the room from both
\* maps, and another room with a member is still in both.
C20_Witness ==
  /\ lastEvent.ev = "disconnect"
  /\ \E r \in lastEvent.was : ~HasOwn(rooms, r) /\ ~HasOwn(userVideoStates, r)
  /\ \E r \in DOMAIN rooms :
       Len(rooms[r]) > 0 /\ HasOwn(userVideoStates, r) /\ r \notin lastEvent.was
====
